---- MODULE Spec2Model ----
(***************************************************************************)
(* Admission-control engine of the Filipino verification bot (main.py):    *)
(* RateLimiter, DatabaseManager, PhoneVerifier and the handlers of         *)
(* FilipinoBotManager.  Every handler is one atomic action; the outcome of *)
(* each external (Telegram) call is an input of the action.                *)
(***************************************************************************)
EXTENDS Integers, Sequences, FiniteSets, TLC

(***************************************************************************)
(* Bounds of the model and program constants.                              *)
(***************************************************************************)
MaxTime == 3            \* the clock runs over 0..MaxTime ticks
DayTicks == 2           \* timedelta(days=1), in clock ticks
MaxMembers == 2         \* ordinary accounts (neither the administrator nor a bot)
MaxChats == 3           \* chats the bot can be added to (invite issuance)
MaxMainChats == 1       \* chats the bot is added to in the whole-system specification
MaxJoinChats == 1       \* chats that deliver join requests
MaxRestarts == 1        \* restarts of the process
MaxTasks == 4           \* contact messages whose handlers are in flight together

ADMIN_ID == 1
BOT_ID == 2             \* the account whose is_bot flag is set (the bot itself)
verification_limit == 3
join_limit == 5

Members == (BOT_ID + 1)..(BOT_ID + MaxMembers)
Users == {ADMIN_ID, BOT_ID} \cup Members
Contacts == {BOT_ID + 1}      \* accounts that send the bot private messages
Chats == 1..MaxChats
MainChats == 1..MaxMainChats
JoinChats == 1..MaxJoinChats
AllChats == Chats

is_bot(u) == u = BOT_ID

(***************************************************************************)
(* Strings are sequences of one-character strings, so that the prefix      *)
(* tests and slices of verify_phone_number can be computed.                *)
(***************************************************************************)
Digits == {"0", "1", "2", "3", "4", "5", "6", "7", "8", "9"}
Separators == {" ", "-", "(", ")"}

PhoneLocal == <<"0","9","1","7","1","2","3","4","5","6","7">>
PhoneUS == <<"+","1","4","1","5","5","5","5","2","6","7","1">>
Phones == {PhoneLocal, PhoneUS}

startswith(s, p) == Len(s) >= Len(p) /\ SubSeq(s, 1, Len(p)) = p

DropFirst(s, n) == SubSeq(s, n + 1, Len(s))

RECURSIVE StripSeparators(_)
StripSeparators(s) ==
    IF s = <<>> THEN <<>>
    ELSE IF Head(s) \in Separators THEN StripSeparators(Tail(s))
         ELSE <<Head(s)>> \o StripSeparators(Tail(s))

RECURSIVE AllDigits(_)
AllDigits(s) == s = <<>> \/ (Head(s) \in Digits /\ AllDigits(Tail(s)))

VARIABLES
    now,                    \* datetime.now(), in ticks
    verification_attempts,  \* RateLimiter.verification_attempts: user -> list of timestamps
    join_attempts,          \* RateLimiter.join_attempts: user -> list of timestamps
    blocked_users,          \* FilipinoBotManager.blocked_users (in memory)
    verified_users,         \* table verified_users: user -> row
    join_requests,          \* table join_requests: <<user, chat>> -> status
    managed_groups,         \* table managed_groups: chat -> row
    metadata,               \* release of the phonenumbers metadata the process loaded
    effects,                \* what the handler that ran last sent out, in program order:
                            \* its Bot API calls and the rows it inserted in spam_tracking
    boots,                  \* how often main() has started the process
    update,                 \* the telegram Update the handler that ran last was given
    ret,                    \* value returned by the last direct RateLimiter call
    tasks                   \* coroutines of handle_contact_message the event loop holds:
                            \* the statement each one is at, and its locals

vars == <<now, verification_attempts, join_attempts, blocked_users, verified_users,
          join_requests, managed_groups, metadata, effects, boots, update, ret, tasks>>

rl_vars == <<verification_attempts, join_attempts>>
db_vars == <<verified_users, join_requests, managed_groups>>

(***************************************************************************)
(* PhoneVerifier.  The phonenumbers library is modelled for the two        *)
(* calling codes the model's numbers use: +63 (one region, PH) and +1      *)
(* (NANP).  A release of its metadata fixes which PH mobile ranges are     *)
(* valid; release 1 knows the range 917, release 2 has withdrawn it.       *)
(***************************************************************************)
Releases == {1, 2}

PHMobileRanges(rel) ==
    IF rel = 1 THEN {<<"9","1","7">>, <<"9","1","8">>} ELSE {<<"9","1","8">>}

\* phonenumbers.parse(number) with no default region
parse(number) ==
    IF ~startswith(number, <<"+">>) \/ ~AllDigits(DropFirst(number, 1))
    THEN [ok |-> FALSE, country_code |-> 0, national_number |-> <<>>]
    ELSE IF startswith(number, <<"+","6","3">>) /\ Len(number) > 4
    THEN [ok |-> TRUE, country_code |-> 63, national_number |-> DropFirst(number, 3)]
    ELSE IF startswith(number, <<"+","1">>) /\ Len(number) > 3
    THEN [ok |-> TRUE, country_code |-> 1, national_number |-> DropFirst(number, 2)]
    ELSE [ok |-> FALSE, country_code |-> 0, national_number |-> <<>>]

\* phonenumbers.is_valid_number(parsed)
is_valid_number(parsed) ==
    LET nsn == parsed.national_number IN
    IF parsed.country_code = 63
    THEN Len(nsn) = 10 /\ SubSeq(nsn, 1, 3) \in PHMobileRanges(metadata)
    ELSE IF parsed.country_code = 1
    THEN Len(nsn) = 10 /\ nsn[1] \notin {"0", "1"} /\ nsn[4] \notin {"0", "1"}
    ELSE FALSE

\* phonenumbers.region_code_for_number(parsed): +63 has the single region PH;
\* +1 is shared, so the region is found by validating the number.
region_code_for_number(parsed) ==
    IF parsed.country_code = 63 THEN "PH"
    ELSE IF parsed.country_code = 1 /\ is_valid_number(parsed) THEN "US"
    ELSE "None"

\* phonenumbers.format_number(parsed, PhoneNumberFormat.INTERNATIONAL)
format_number(parsed) ==
    LET nsn == parsed.national_number
        cc == IF parsed.country_code = 63 THEN <<"+","6","3">> ELSE <<"+","1">>
    IN  IF ~is_valid_number(parsed) THEN cc \o <<" ">> \o nsn
        ELSE IF parsed.country_code = 63
        THEN cc \o <<" ">> \o SubSeq(nsn, 1, 3) \o <<" ">> \o SubSeq(nsn, 4, 6)
                \o <<" ">> \o SubSeq(nsn, 7, 10)
        ELSE cc \o <<" ">> \o SubSeq(nsn, 1, 3) \o <<"-">> \o SubSeq(nsn, 4, 6)
                \o <<"-">> \o SubSeq(nsn, 7, 10)

\* mutant: only the leading-zero national form is rewritten
cleaned_number_leading_zero_only(phone_number) ==
    LET c == StripSeparators(phone_number) IN
    IF startswith(c, <<"0","9">>) THEN <<"+","6","3">> \o DropFirst(c, 1)
    ELSE c

\* lines 213-223: strip separators, then rewrite national forms to +63...
cleaned_number(phone_number) ==
    LET c == StripSeparators(phone_number) IN
    IF startswith(c, <<"0","9">>) THEN <<"+","6","3">> \o DropFirst(c, 1)
    ELSE IF startswith(c, <<"9">>) /\ Len(c) = 10 THEN <<"+","6","3">> \o c
    ELSE IF startswith(c, <<"6","3">>) /\ ~startswith(c, <<"+","6","3">>) THEN <<"+">> \o c
    ELSE IF ~startswith(c, <<"+">>) /\ Len(c) = 11 /\ startswith(c, <<"0">>)
    THEN <<"+","6","3">> \o DropFirst(c, 1)
    ELSE IF ~startswith(c, <<"+">>) /\ Len(c) = 10 THEN <<"+","6","3">> \o c
    ELSE c

verify_phone_number(phone_number) ==
    LET parsed == parse(cleaned_number(phone_number))
        region == region_code_for_number(parsed)
        is_valid == is_valid_number(parsed)
        is_ph == region = "PH" /\ parsed.country_code = 63 /\ is_valid
    IN  IF parsed.ok
        THEN [is_filipino |-> is_ph,
              formatted_number |-> format_number(parsed),
              is_valid |-> is_valid,
              region |-> region,
              country_code |-> IF is_valid THEN parsed.country_code ELSE 0]
        ELSE [is_filipino |-> FALSE,
              formatted_number |-> phone_number,
              is_valid |-> FALSE,
              region |-> "None",
              country_code |-> 0]

(***************************************************************************)
(* RateLimiter.  An attempts map starts as a defaultdict(list); _cleanup   *)
(* replaces it by a plain dict built with a dict display, so from the      *)
(* first _cleanup on a lookup of a user without a key raises KeyError.     *)
(***************************************************************************)
EmptyAttempts == [is_defaultdict |-> TRUE, items |-> <<>>]

\* d[user_id] does not raise KeyError
has_key(d, user_id) == d.is_defaultdict \/ user_id \in DOMAIN d.items

\* d[user_id]; a defaultdict yields [] for a missing key
getitem(d, user_id) == IF user_id \in DOMAIN d.items THEN d.items[user_id] ELSE <<>>

\* [t for t in attempts if now - t < window]
unexpired(attempts, window) == SelectSeq(attempts, LAMBDA t : now - t < window)

\* the map _cleanup stores back with setattr (has_key(d, user_id) is required)
cleanup(d, user_id, window) ==
    [is_defaultdict |-> FALSE,
     items |-> (user_id :> unexpired(getitem(d, user_id), window)) @@ d.items]

\* can_verify's return value; its side effect is cleanup(verification_attempts, ..)
can_verify(user_id) ==
    Len(getitem(cleanup(verification_attempts, user_id, DayTicks), user_id))
        < verification_limit

\* d[user_id].append(datetime.now())  (has_key(d, user_id) is required)
record(d, user_id) ==
    [d EXCEPT !.items = (user_id :> Append(getitem(d, user_id), now)) @@ d.items]

can_join(user_id) ==
    Len(getitem(cleanup(join_attempts, user_id, DayTicks), user_id)) < join_limit

(***************************************************************************)
(* DatabaseManager.  A table is a function from its primary key to a row;  *)
(* the display columns and the row timestamps are left out.                *)
(***************************************************************************)
None == <<>>
NoUser == [present |-> FALSE, phone_number |-> None, is_banned |-> FALSE]
NoGroup == [present |-> FALSE, is_active |-> FALSE]

\* INSERT OR REPLACE ... VALUES (?, ?, ?, ?, ?, FALSE)
add_verified_user(tbl, user_id, phone_number) ==
    [tbl EXCEPT ![user_id] =
        [present |-> TRUE, phone_number |-> phone_number, is_banned |-> FALSE]]

\* SELECT user_id ... WHERE user_id = ? AND is_banned = FALSE
is_verified(user_id) ==
    verified_users[user_id].present /\ ~verified_users[user_id].is_banned

\* mutant: the SELECT without its is_banned filter
get_user_phone_of_banned(user_id) ==
    IF verified_users[user_id].present
    THEN verified_users[user_id].phone_number
    ELSE None

\* SELECT phone_number ... WHERE user_id = ? AND is_banned = FALSE
get_user_phone(user_id) ==
    IF verified_users[user_id].present /\ ~verified_users[user_id].is_banned
    THEN verified_users[user_id].phone_number
    ELSE None

\* UPDATE verified_users SET is_banned = TRUE WHERE user_id = ?
ban_user(tbl, user_id) ==
    IF tbl[user_id].present THEN [tbl EXCEPT ![user_id].is_banned = TRUE] ELSE tbl

\* mutant: INSERT OR IGNORE, an existing record keeps its status
add_join_request_if_absent(tbl, user_id, chat_id) ==
    IF tbl[<<user_id, chat_id>>] = "none"
    THEN [tbl EXCEPT ![<<user_id, chat_id>>] = "pending"]
    ELSE tbl

\* INSERT OR REPLACE INTO join_requests ... 'pending'
add_join_request(tbl, user_id, chat_id) ==
    [tbl EXCEPT ![<<user_id, chat_id>>] = "pending"]

\* mutant: the UPDATE matches no row
update_join_request_status_lost(tbl, user_id, chat_id, status) == tbl

\* UPDATE join_requests SET status = ? WHERE user_id = ? AND chat_id = ?
update_join_request_status(tbl, user_id, chat_id, status) ==
    IF tbl[<<user_id, chat_id>>] = "none" THEN tbl
    ELSE [tbl EXCEPT ![<<user_id, chat_id>>] = status]

\* INSERT OR REPLACE INTO managed_groups ... TRUE
add_managed_group(tbl, chat_id) ==
    [tbl EXCEPT ![chat_id] = [present |-> TRUE, is_active |-> TRUE]]

\* SELECT chat_id ... WHERE is_active = TRUE
get_managed_groups ==
    {c \in AllChats : managed_groups[c].present /\ managed_groups[c].is_active}


(***************************************************************************)
(* Bot API calls.  A handler's calls are kept, in order, in effects; ok is  *)
(* FALSE when the call raised.  Which calls raise is an input of every     *)
(* handler: raises is the set of ordinals (first call, second call, ...)   *)
(* of the calls that raise.                                                *)
(***************************************************************************)
Call(method, chat_id, user_id, text, ok) ==
    [method |-> method, chat_id |-> chat_id, user_id |-> user_id, text |-> text,
     ok |-> ok, links |-> <<>>]

\* INSERT INTO spam_tracking: the table is insert-only and the program never
\* reads it, so a row is kept with the effects of the handler that inserts it
log_spam_incident(user_id, incident_type) ==
    [method |-> "log_spam_incident", chat_id |-> 0, user_id |-> user_id,
     text |-> incident_type, ok |-> TRUE, links |-> <<>>]

Reply(user_id, text, ok, links) ==
    [Call("reply_text", user_id, user_id, text, ok) EXCEPT !.links = links]

RECURSIVE Ascending(_)
Ascending(S) ==
    IF S = {} THEN <<>>
    ELSE LET m == CHOOSE x \in S : \A y \in S : x <= y
         IN  <<m>> \o Ascending(S \ {m})

\* mutant: the loop returns after its first row
invite_calls_first_only(user_id, raises) ==
    LET groups == Ascending(get_managed_groups)
    IN  IF groups = <<>> THEN <<>>
        ELSE <<Call("create_chat_invite_link", groups[1], user_id, "", 1 \notin raises)>>

\* the create_chat_invite_link calls of generate_invite_links, one per row of
\* get_managed_groups(), each inside its own try/except
invite_calls(user_id, raises) ==
    LET groups == Ascending(get_managed_groups)
    IN  [i \in 1..Len(groups) |->
            Call("create_chat_invite_link", groups[i], user_id, "", i \notin raises)]

\* mutant: one try/except around the whole loop, so the first failure ends it
generate_invite_links_aborting(user_id, raises) ==
    LET groups == Ascending(get_managed_groups)
        done == {i \in 1..Len(groups) : \A j \in 1..i : j \notin raises}
    IN  IF groups = <<>>
        THEN <<[chat_id |-> 0, entry |-> "no_groups"]>>
        ELSE [i \in 1..Cardinality(done) |-> [chat_id |-> groups[i], entry |-> "link"]]

\* generate_invite_links' return value: invite_messages, or the no-groups text
generate_invite_links(user_id, raises) ==
    LET groups == Ascending(get_managed_groups)
    IN  IF groups = <<>>
        THEN <<[chat_id |-> 0, entry |-> "no_groups"]>>
        ELSE [i \in 1..Len(groups) |->
                [chat_id |-> groups[i],
                 entry |-> IF i \in raises THEN "failed" ELSE "link"]]

\* mutant: a notification that raises turns the record into rejected
persist_approval_rolled_back(tbl, user_id, chat_id, notifications) ==
    IF \A i \in 1..Len(notifications) : notifications[i].ok
    THEN update_join_request_status(tbl, user_id, chat_id, "approved")
    ELSE update_join_request_status(tbl, user_id, chat_id, "rejected")

\* lines 355-367: the status is written right after the approve call; each of
\* the two notifications is sent inside its own try / except Exception: pass
persist_approval(tbl, user_id, chat_id, notifications) ==
    update_join_request_status(tbl, user_id, chat_id, "approved")

\* mutant: only the bot's own account is trusted
is_trusted_bot_only(user) == is_bot(user)

\* mutant: every requester is approved without any check
is_trusted_everyone(user) == TRUE

\* line 336: the requesters handle_join_request approves without any check
is_trusted(user) == is_bot(user) \/ user = ADMIN_ID

(***************************************************************************)
(* FilipinoBotManager.handle_join_request.  The body runs inside           *)
(* try/except Exception: a raising call that no inner try encloses ends    *)
(* the handler where it is.                                                *)
(***************************************************************************)
handle_join_request(user, chat, raises) ==
    LET approve == Call("approve_chat_join_request", chat, user, "", 1 \notin raises)
        welcome == Call("send_message", user, user, "welcome", 2 \notin raises)
        notify == Call("send_message", ADMIN_ID, user, "auto_approved", 3 \notin raises)
        prompt == Call("send_message", user, user, "verification_required", 1 \notin raises)
        decline(n) == Call("decline_chat_join_request", chat, user, "", n \notin raises)
        cleaned == cleanup(join_attempts, user, DayTicks)
        added == add_join_request(join_requests, user, chat)
    IN
    /\ UNCHANGED <<now, verification_attempts, blocked_users, verified_users,
                   managed_groups, metadata, boots, ret, tasks>>
    /\ IF is_trusted(user) THEN
            /\ effects' = <<approve>>
            /\ UNCHANGED <<join_attempts, join_requests>>
       ELSE IF user \in blocked_users THEN
            /\ effects' = <<decline(1)>> \o
                    (IF decline(1).ok
                     THEN <<log_spam_incident(user, "join_request_rejected")>> ELSE <<>>)
            /\ UNCHANGED <<join_attempts, join_requests>>
       ELSE IF ~has_key(join_attempts, user) THEN      \* KeyError in _cleanup
            /\ effects' = <<>>
            /\ UNCHANGED <<join_attempts, join_requests>>
       ELSE IF ~can_join(user) THEN
            /\ effects' = <<decline(1)>> \o
                    (IF decline(1).ok
                     THEN <<log_spam_incident(user, "join_request_rate_limit")>> ELSE <<>>)
            /\ join_attempts' = cleaned
            /\ UNCHANGED join_requests
       ELSE
            /\ join_attempts' = record(cleaned, user)
            /\ IF /\ is_verified(user)
                  /\ get_user_phone(user) # None
                  /\ verify_phone_number(get_user_phone(user)).is_filipino
               THEN IF approve.ok
                    THEN /\ effects' = <<approve, welcome, notify>>
                         /\ join_requests' =
                                persist_approval(added, user, chat, <<welcome, notify>>)
                    ELSE /\ effects' = <<approve>>
                         /\ join_requests' = added
               ELSE IF prompt.ok
                    THEN /\ effects' = <<prompt>>
                         /\ join_requests' = added
                    ELSE IF decline(2).ok
                    THEN /\ effects' = <<prompt, decline(2)>>
                         /\ join_requests' =
                                update_join_request_status(added, user, chat, "rejected")
                    ELSE /\ effects' = <<prompt, decline(2)>>
                         /\ join_requests' = added

(***************************************************************************)
(* FilipinoBotManager.block_user: the row it logs and the message it sends *)
(* (inside its own try/except); what it does to blocked_users and to       *)
(* verified_users is in the handler that calls it.                         *)
(***************************************************************************)
block_user_effects(user_id, raises) ==
    <<log_spam_incident(user_id, "block"),
      Call("send_message", ADMIN_ID, user_id, "user_blocked", 1 \notin raises)>>

\* mutant: the contact's owner is not compared with the sender
is_own_contact_unchecked(user, contact_user) == TRUE

\* line 426: contact.user_id is the sender's own id
is_own_contact(user, contact_user) == contact_user = user

(***************************************************************************)
(* FilipinoBotManager.handle_contact_message.  No try/except encloses the  *)
(* body: a raising reply_text (or the KeyError of _cleanup) ends the       *)
(* handler and the statements after it do not run.                         *)
(***************************************************************************)
handle_contact_message(user, contact_user, phone_number, raises) ==
    LET cleaned == cleanup(verification_attempts, user, DayTicks)
        phone_result == verify_phone_number(phone_number)
        n == Cardinality(get_managed_groups)
        reply(k, text, links) == Reply(user, text, k \notin raises, links)
    IN
    /\ UNCHANGED <<now, join_attempts, join_requests, managed_groups, metadata, boots, ret, tasks>>
    /\ IF user \in blocked_users THEN
            /\ effects' = <<reply(1, "blocked", <<>>)>>
            /\ UNCHANGED <<verification_attempts, blocked_users, verified_users>>
       ELSE IF ~is_own_contact(user, contact_user) THEN
            /\ effects' = <<reply(1, "own_number_only", <<>>)>>
            /\ UNCHANGED <<verification_attempts, blocked_users, verified_users>>
       ELSE IF ~has_key(verification_attempts, user) THEN      \* KeyError in _cleanup
            /\ effects' = <<>>
            /\ UNCHANGED <<verification_attempts, blocked_users, verified_users>>
       ELSE IF ~can_verify(user) THEN
            /\ verification_attempts' = cleaned
            /\ blocked_users' = blocked_users \cup {user}
            /\ verified_users' = ban_user(verified_users, user)
            /\ effects' = block_user_effects(user, raises)
                            \o <<reply(2, "too_many_attempts", <<>>)>>
                            \o (IF 2 \in raises THEN <<>>
                                ELSE <<log_spam_incident(user, "verification_rate_limit")>>)
       ELSE IF phone_result.is_filipino THEN
            /\ verification_attempts' = record(cleaned, user)
            /\ verified_users' = add_verified_user(verified_users, user, phone_number)
            /\ effects' = invite_calls(user, raises)
                            \o <<reply(n + 1, "verified", generate_invite_links(user, raises))>>
                            \o (IF (n + 1) \in raises THEN <<>>
                                ELSE <<Call("send_message", ADMIN_ID, user,
                                            "new_verified_user", (n + 2) \notin raises)>>)
            /\ UNCHANGED blocked_users
       ELSE
            /\ verification_attempts' = record(cleaned, user)
            /\ effects' = <<reply(1, "invalid_phone", <<>>)>>
                            \o (IF 1 \in raises THEN <<>>
                                ELSE <<log_spam_incident(user, "invalid_phone")>>)
            /\ UNCHANGED <<blocked_users, verified_users>>

(***************************************************************************)
(* FilipinoBotManager.handle_groups_command (/groups)                      *)
(***************************************************************************)
handle_groups_command(user, raises) ==
    LET n == Cardinality(get_managed_groups) IN
    /\ UNCHANGED <<now, rl_vars, blocked_users, db_vars, metadata, boots, ret, tasks>>
    /\ IF ~is_verified(user)
       THEN effects' = <<Reply(user, "verify_first", 1 \notin raises, <<>>)>>
       ELSE effects' = invite_calls(user, raises)
                        \o <<Reply(user, "groups", (n + 1) \notin raises,
                                   generate_invite_links(user, raises))>>

(***************************************************************************)
(* FilipinoBotManager.handle_new_chat_member: the bot is among the new     *)
(* members of chat; status and can_invite_users are what get_chat_member   *)
(* reports for the bot there.                                              *)
(***************************************************************************)
MemberStatuses == {"administrator", "creator", "member"}

handle_new_chat_member(chat, status, can_invite_users, raises) ==
    LET lookup == Call("get_chat_member", chat, BOT_ID, "", 1 \notin raises)
        tell(text) == Call("send_message", ADMIN_ID, BOT_ID, text, 2 \notin raises)
    IN
    /\ UNCHANGED <<now, rl_vars, blocked_users, verified_users, join_requests,
                   metadata, boots, ret, tasks>>
    /\ IF ~lookup.ok THEN
            /\ effects' = <<lookup>>
            /\ UNCHANGED managed_groups
       ELSE IF status \in {"administrator", "creator"} THEN
            /\ managed_groups' = add_managed_group(managed_groups, chat)
            /\ effects' = <<lookup, tell("added_to_group")>>
       ELSE
            /\ effects' = <<lookup, tell("not_admin")>>
            /\ UNCHANGED managed_groups

(***************************************************************************)
(* FilipinoBotManager.handle_admin_add_group (/addgroup <chat_id> <name>)  *)
(***************************************************************************)
handle_admin_add_group(user, chat, status, raises) ==
    LET lookup == Call("get_chat_member", chat, BOT_ID, "", 1 \notin raises)
        reply(k, text) == Reply(user, text, k \notin raises, <<>>)
    IN
    /\ UNCHANGED <<now, rl_vars, blocked_users, verified_users, join_requests,
                   metadata, boots, ret, tasks>>
    /\ IF user # ADMIN_ID THEN
            /\ effects' = <<reply(1, "admin_only")>>
            /\ UNCHANGED managed_groups
       ELSE IF ~lookup.ok THEN
            /\ effects' = <<lookup, reply(2, "error")>>
            /\ UNCHANGED managed_groups
       ELSE IF status \in {"administrator", "creator"} THEN
            /\ managed_groups' = add_managed_group(managed_groups, chat)
            /\ effects' = <<lookup, reply(2, "group_added")>>
       ELSE
            /\ effects' = <<lookup, reply(2, "bot_not_admin")>>
            /\ UNCHANGED managed_groups

(***************************************************************************)
(* The process stops and main() runs again: FilipinoBotManager.__init__    *)
(* builds a fresh RateLimiter and an empty blocked_users over the same     *)
(* database file; the phonenumbers package may have been upgraded.         *)
(***************************************************************************)
NoUpdate == [handler |-> "None", user_id |-> 0, chat_id |-> 0,
             contact_user_id |-> 0, phone_number |-> <<>>]

\* the fields of an Update that the handlers read: effective_user.id,
\* chat_join_request.chat.id / effective_chat.id, message.contact
Update(handler, user_id, chat_id, contact_user_id, phone_number) ==
    [handler |-> handler, user_id |-> user_id, chat_id |-> chat_id,
     contact_user_id |-> contact_user_id, phone_number |-> phone_number]

Restart(release) ==
    /\ boots < MaxRestarts
    /\ boots' = boots + 1
    /\ verification_attempts' = EmptyAttempts
    /\ join_attempts' = EmptyAttempts
    /\ blocked_users' = {}
    /\ metadata' = release
    /\ effects' = <<>>
    /\ update' = NoUpdate
    /\ UNCHANGED <<now, db_vars, ret, tasks>>

\* time passes
Tick ==
    /\ now < MaxTime
    /\ now' = now + 1
    /\ UNCHANGED <<rl_vars, blocked_users, db_vars, metadata, effects, boots, update, ret, tasks>>

NoReturn == [op |-> "None", user_id |-> 0, value |-> "None"]

TaskIds == 1..MaxTasks

\* a coroutine that has not been created yet
NoTask == [pc |-> "new", user_id |-> 0, contact_user_id |-> 0, phone_number |-> <<>>,
           passed_at |-> 0 - 1]

Init ==
    /\ now = 0
    /\ verification_attempts = EmptyAttempts
    /\ join_attempts = EmptyAttempts
    /\ blocked_users = {}
    /\ verified_users = [u \in Users |-> NoUser]
    /\ join_requests = [k \in Users \X JoinChats |-> "none"]
    /\ managed_groups = [c \in AllChats |-> NoGroup]
    /\ metadata = 1
    /\ effects = <<>>
    /\ boots = 0
    /\ update = NoUpdate
    /\ ret = NoReturn
    /\ tasks = [t \in TaskIds |-> NoTask]

Ordinals(n) == SUBSET (1..n)

JoinRequest ==
    \E user \in Users, chat \in JoinChats, raises \in Ordinals(3) :
        /\ update' = Update("handle_join_request", user, chat, 0, <<>>)
        /\ handle_join_request(user, chat, raises)

Contact(senders) ==
    \E user \in senders, own \in BOOLEAN, phone_number \in Phones :
        \E raises \in Ordinals(Cardinality(get_managed_groups) + 2) :
            LET contact_user == IF own THEN user ELSE BOT_ID IN
            /\ update' = Update("handle_contact_message", user, user, contact_user, phone_number)
            /\ handle_contact_message(user, contact_user, phone_number, raises)

GroupsCommand(senders) ==
    \E user \in senders, raises \in Ordinals(Cardinality(get_managed_groups) + 1) :
        /\ update' = Update("handle_groups_command", user, user, 0, <<>>)
        /\ handle_groups_command(user, raises)

NewChatMember(chats) ==
    \E chat \in chats, status \in MemberStatuses, can_invite_users \in BOOLEAN :
        \E raises \in Ordinals(2) :
            /\ update' = Update("handle_new_chat_member", BOT_ID, chat, 0, <<>>)
            /\ handle_new_chat_member(chat, status, can_invite_users, raises)

AdminAddGroup(senders) ==
    \E user \in senders, chat \in Chats, status \in MemberStatuses :
        \E raises \in Ordinals(2) :
            /\ update' = Update("handle_admin_add_group", user, chat, 0, <<>>)
            /\ handle_admin_add_group(user, chat, status, raises)

ProcessRestart == \E release \in Releases : Restart(release)

(***************************************************************************)
(* The whole system within one day: join requests, a member's contacts,    *)
(* the bot joining a chat and restarts.                                    *)
(***************************************************************************)
Next ==
    \/ JoinRequest
    \/ Contact(Contacts)
    \/ NewChatMember(MainChats)
    \/ ProcessRestart

Spec == Init /\ [][Next]_vars

(***************************************************************************)
(* The administrator as a user of the bot: the administrator shares        *)
(* contacts like anyone else, and everyone sends join requests.            *)
(***************************************************************************)
NextTrusted ==
    \/ JoinRequest
    \/ Contact({ADMIN_ID})
    \/ ProcessRestart

SpecTrusted == Init /\ [][NextTrusted]_vars

(***************************************************************************)
(* Invite issuance: the bot is added to chats, the administrator adds      *)
(* chats, users verify and ask for their links.                            *)
(***************************************************************************)
NextIssuer ==
    \/ NewChatMember(Chats)
    \/ AdminAddGroup({ADMIN_ID} \cup Contacts)
    \/ Contact({ADMIN_ID} \cup Contacts)
    \/ GroupsCommand({ADMIN_ID} \cup Contacts)

SpecIssuer == Init /\ [][NextIssuer]_vars

(***************************************************************************)
(* The RateLimiter under a client that uses it the way the handlers do     *)
(* (lines 343-347, 429-434): it calls can_*, and records the attempt       *)
(* when that call returned True, while time passes.  ret holds what the    *)
(* last can_* call returned or raised.                                     *)
(***************************************************************************)
Returned(op, user_id, d, limit) ==
    [op |-> op, user_id |-> user_id,
     value |-> IF ~has_key(d, user_id) THEN "KeyError"
               ELSE IF Len(getitem(cleanup(d, user_id, DayTicks), user_id)) < limit
               THEN "True" ELSE "False"]

CallCanVerify(user_id) ==
    /\ ret' = Returned("can_verify", user_id, verification_attempts, verification_limit)
    /\ verification_attempts' =
            IF has_key(verification_attempts, user_id)
            THEN cleanup(verification_attempts, user_id, DayTicks)
            ELSE verification_attempts
    /\ UNCHANGED <<now, join_attempts, blocked_users, db_vars, metadata, effects, boots, update, tasks>>

CallRecordVerification(user_id) ==
    /\ ret = [op |-> "can_verify", user_id |-> user_id, value |-> "True"]
    /\ verification_attempts' = record(verification_attempts, user_id)
    /\ ret' = NoReturn
    /\ UNCHANGED <<now, join_attempts, blocked_users, db_vars, metadata, effects, boots, update, tasks>>

CallCanJoin(user_id) ==
    /\ ret' = Returned("can_join", user_id, join_attempts, join_limit)
    /\ join_attempts' =
            IF has_key(join_attempts, user_id)
            THEN cleanup(join_attempts, user_id, DayTicks)
            ELSE join_attempts
    /\ UNCHANGED <<now, verification_attempts, blocked_users, db_vars, metadata, effects, boots, update, tasks>>

CallRecordJoin(user_id) ==
    /\ ret = [op |-> "can_join", user_id |-> user_id, value |-> "True"]
    /\ join_attempts' = record(join_attempts, user_id)
    /\ ret' = NoReturn
    /\ UNCHANGED <<now, verification_attempts, blocked_users, db_vars, metadata, effects, boots, update, tasks>>

NextRate ==
    \/ \E user_id \in Members : CallCanVerify(user_id)
    \/ \E user_id \in Members : CallRecordVerification(user_id)
    \/ \E user_id \in Members : CallCanJoin(user_id)
    \/ \E user_id \in Members : CallRecordJoin(user_id)
    \/ Tick

SpecRate == Init /\ [][NextRate]_vars

(***************************************************************************)
(* The bot's membership in its chats.  main() asks for every update type   *)
(* (allowed_updates=Update.ALL_TYPES) and registers no ChatMemberHandler:  *)
(* the my_chat_member update telling that the bot is no longer an          *)
(* administrator of chat (demoted, or its can_invite_users right taken     *)
(* away) reaches the Application and no handler runs.                      *)
(***************************************************************************)
MyChatMemberUpdate(chat) == Update("my_chat_member", BOT_ID, chat, 0, <<>>)

MyChatMemberDemoted ==
    \E chat \in Chats :
        /\ update' = MyChatMemberUpdate(chat)
        /\ effects' = <<>>
        /\ UNCHANGED <<now, rl_vars, blocked_users, db_vars, metadata, boots, ret, tasks>>

NextMembership ==
    \/ NewChatMember(Chats)
    \/ AdminAddGroup({ADMIN_ID})
    \/ MyChatMemberDemoted
    \/ GroupsCommand({ADMIN_ID})

SpecMembership == Init /\ [][NextMembership]_vars

(***************************************************************************)
(* One admission per member: a member asks once to join a chat and shares  *)
(* their own contact until they are verified.  The Application runs the    *)
(* handler of every update it is given (run_polling), so the handlers are  *)
(* weakly fair; the program has no step of its own besides them.           *)
(***************************************************************************)
MemberJoinsOnce ==
    \E user \in Members, chat \in JoinChats, raises \in Ordinals(3) :
        /\ join_requests[<<user, chat>>] = "none"
        /\ update' = Update("handle_join_request", user, chat, 0, <<>>)
        /\ handle_join_request(user, chat, raises)

MemberSharesUntilVerified ==
    \E user \in Members, phone_number \in Phones :
        \E raises \in Ordinals(Cardinality(get_managed_groups) + 2) :
            /\ ~is_verified(user)
            /\ update' = Update("handle_contact_message", user, user, user, phone_number)
            /\ handle_contact_message(user, user, phone_number, raises)

NextAutoApprove ==
    \/ MemberJoinsOnce
    \/ MemberSharesUntilVerified

SpecAutoApprove == Init /\ [][NextAutoApprove]_vars /\ WF_vars(NextAutoApprove)

(***************************************************************************)
(* Contact messages handled concurrently.  Each message is a coroutine of  *)
(* handle_contact_message on the one event loop of the Application; a      *)
(* coroutine runs without interruption up to and including its next await  *)
(* (the call is issued and the coroutine suspends), and any other          *)
(* coroutine may run in between.  This is every interleaving the event     *)
(* loop can produce; the build (concurrent_updates left at its default)    *)
(* runs the handlers one after another, which is one of them.  A statement *)
(* is named by its line.  No chat is managed here, so generate_invite_links*)
(* returns its no-groups text without a call.                              *)
(***************************************************************************)
Awaits == {"l424", "l427", "l430", "l431", "l438", "l443", "l450"}

\* mutant: can_verify suspends too (an awaited, store-backed limiter)
is_await_after_check(pc) == pc \in Awaits \cup {"l429"}

\* the statements of handle_contact_message (and block_user) that await
is_await(pc) == pc \in Awaits

\* one statement of the coroutine task, run in the state s of the process it
\* sees; raised tells whether the call of an await statement raises
exec(s, task, raised) ==
    LET user == task.user_id
        pc == s.pc
        reply(text, links) == Reply(user, text, ~raised, links)
        cleaned == cleanup(s.va, user, DayTicks)
    IN
    IF pc = "l423" THEN
        [s EXCEPT !.pc = IF user \in s.blocked THEN "l424" ELSE "l426"]
    ELSE IF pc = "l424" THEN
        [s EXCEPT !.eff = Append(@, reply("blocked", <<>>)), !.pc = "done"]
    ELSE IF pc = "l426" THEN
        [s EXCEPT !.pc = IF is_own_contact(user, task.contact_user_id)
                         THEN "l429" ELSE "l427"]
    ELSE IF pc = "l427" THEN
        [s EXCEPT !.eff = Append(@, reply("own_number_only", <<>>)), !.pc = "done"]
    ELSE IF pc = "l429" THEN
        IF ~has_key(s.va, user) THEN [s EXCEPT !.pc = "done"]       \* KeyError
        ELSE IF Len(getitem(cleaned, user)) < verification_limit
        THEN [s EXCEPT !.va = cleaned, !.pc = "l434", !.passed_at = now]
        ELSE [s EXCEPT !.va = cleaned, !.pc = "l430"]
    ELSE IF pc = "l430" THEN
        [s EXCEPT !.blocked = @ \cup {user},
                  !.vu = ban_user(@, user),
                  !.eff = @ \o block_user_effects(user, IF raised THEN {1} ELSE {}),
                  !.pc = "l431"]
    ELSE IF pc = "l431" THEN
        [s EXCEPT !.eff = Append(@, reply("too_many_attempts", <<>>)),
                  !.pc = IF raised THEN "done" ELSE "l432"]
    ELSE IF pc = "l432" THEN
        [s EXCEPT !.eff = Append(@, log_spam_incident(user, "verification_rate_limit")),
                  !.pc = "done"]
    ELSE IF pc = "l434" THEN
        [s EXCEPT !.va = record(@, user), !.pc = "l435"]
    ELSE IF pc = "l435" THEN
        [s EXCEPT !.pc = IF verify_phone_number(task.phone_number).is_filipino
                         THEN "l437" ELSE "l450"]
    ELSE IF pc = "l437" THEN
        [s EXCEPT !.vu = add_verified_user(@, user, task.phone_number), !.pc = "l438"]
    ELSE IF pc = "l438" THEN
        [s EXCEPT !.eff = Append(@, reply("verified", generate_invite_links(user, {}))),
                  !.pc = IF raised THEN "done" ELSE "l443"]
    ELSE IF pc = "l443" THEN
        [s EXCEPT !.eff = Append(@, Call("send_message", ADMIN_ID, user,
                                         "new_verified_user", ~raised)),
                  !.pc = "done"]
    ELSE IF pc = "l450" THEN
        [s EXCEPT !.eff = Append(@, reply("invalid_phone", <<>>)),
                  !.pc = IF raised THEN "done" ELSE "l455"]
    ELSE IF pc = "l455" THEN
        [s EXCEPT !.eff = Append(@, log_spam_incident(user, "invalid_phone")),
                  !.pc = "done"]
    ELSE s

\* the coroutine runs from s.pc until it has executed an await or has returned
RECURSIVE run(_, _, _)
run(s, task, raised) ==
    LET after == exec(s, task, raised) IN
    IF after.pc = "done" \/ is_await(s.pc) THEN after ELSE run(after, task, raised)

\* the event loop gives control to coroutine t, which is at task.pc
RunTask(t, task, raised) ==
    LET s == run([pc |-> task.pc, va |-> verification_attempts, blocked |-> blocked_users,
                  vu |-> verified_users, eff |-> <<>>, passed_at |-> task.passed_at],
                 task, raised)
    IN
    /\ verification_attempts' = s.va
    /\ blocked_users' = s.blocked
    /\ verified_users' = s.vu
    /\ effects' = s.eff
    /\ tasks' = [tasks EXCEPT ![t] = [task EXCEPT !.pc = s.pc, !.passed_at = s.passed_at]]
    /\ update' = Update("handle_contact_message", task.user_id, task.user_id,
                        task.contact_user_id, task.phone_number)
    /\ UNCHANGED <<now, join_attempts, join_requests, managed_groups, metadata, boots, ret>>

\* a contact message arrives and its coroutine starts
StartTask ==
    \E t \in TaskIds, user \in Contacts, own \in BOOLEAN, phone_number \in Phones :
        \E raised \in BOOLEAN :
            /\ tasks[t].pc = "new"
            /\ \A earlier \in 1..(t - 1) : tasks[earlier].pc # "new"
            /\ RunTask(t, [pc |-> "l423", user_id |-> user,
                           contact_user_id |-> IF own THEN user ELSE BOT_ID,
                           phone_number |-> phone_number, passed_at |-> 0 - 1], raised)

\* the call a coroutine awaits has returned or raised, and the coroutine goes on
ResumeTask ==
    \E t \in TaskIds, raised \in BOOLEAN :
        /\ tasks[t].pc \notin {"new", "done"}
        /\ RunTask(t, tasks[t], raised)

NextConcurrent ==
    \/ StartTask
    \/ ResumeTask
    \/ Tick

SpecConcurrent == Init /\ [][NextConcurrent]_vars

(***************************************************************************)
(* PhoneVerifier under the strings users share.  A subscriber number is    *)
(* written in one of four forms (leading zero, bare national, 63, +63),    *)
(* plain or grouped with spaces or dashes; numbers of another country come *)
(* with and without their plus.  update holds the contact message, ret     *)
(* what verify_phone_number returned for its phone, and the contact        *)
(* handler then runs on the same message.                                  *)
(***************************************************************************)
Subscribers ==
    {<<"9","1","7","1","2","3","4","5","6","7">>,
     <<"9","1","7","7","6","5","4","3","2","1">>,
     <<"9","1","8","1","2","3","4","5","6","7">>,
     <<"9","1","8","7","6","5","4","3","2","1">>}

Prefixes == {<<"0">>, <<>>, <<"6","3">>, <<"+","6","3">>}

Groupings == {<<>>, <<" ">>, <<"-">>}

\* the way a user writes subscriber sub: prefix, then 3-3-4 digits joined by sep
Written(prefix, sub, sep) ==
    prefix \o sep \o SubSeq(sub, 1, 3) \o sep \o SubSeq(sub, 4, 6) \o sep \o SubSeq(sub, 7, 10)

ForeignPhones ==
    {PhoneUS, DropFirst(PhoneUS, 1), DropFirst(PhoneUS, 2),
     <<"+","1","1","1","5","5","5","5","2","6","7","1">>}

RawPhones ==
    {Written(prefix, sub, sep) : prefix \in Prefixes, sub \in Subscribers, sep \in Groupings}
        \cup ForeignPhones

InitClassify ==
    /\ now = 0
    /\ verification_attempts = EmptyAttempts
    /\ join_attempts = EmptyAttempts
    /\ blocked_users = {}
    /\ verified_users = [u \in Users |-> NoUser]
    /\ join_requests = [k \in Users \X JoinChats |-> "none"]
    /\ managed_groups = [c \in AllChats |-> NoGroup]
    /\ metadata \in Releases
    /\ effects = <<>>
    /\ boots = 0
    /\ \E user \in Contacts, phone_number \in RawPhones :
            update = Update("handle_contact_message", user, user, user, phone_number)
    /\ ret = NoReturn
    /\ tasks = [t \in TaskIds |-> NoTask]

CallVerifyPhoneNumber ==
    /\ ret = NoReturn
    /\ ret' = [op |-> "verify_phone_number", user_id |-> update.user_id,
               value |-> verify_phone_number(update.phone_number)]
    /\ UNCHANGED <<now, rl_vars, blocked_users, db_vars, metadata, effects, boots, update, tasks>>

ContactClassified ==
    /\ ret.op = "verify_phone_number"
    /\ \E raises \in Ordinals(2) :
            handle_contact_message(update.user_id, update.contact_user_id,
                                   update.phone_number, raises)
    /\ UNCHANGED update

NextClassify ==
    \/ CallVerifyPhoneNumber
    \/ ContactClassified

SpecClassify == InitClassify /\ [][NextClassify]_vars

(***************************************************************************)
(* What the handler that ran last was given and what it sent out.          *)
(***************************************************************************)
JoinUpdate(user, chat) == Update("handle_join_request", user, chat, 0, <<>>)

\* the handler that ran last is handle_contact_message for user's own contact
OwnContact(upd, user) ==
    /\ upd.handler = "handle_contact_message"
    /\ upd.user_id = user
    /\ upd.contact_user_id = user

Entries(eff, method) == {i \in 1..Len(eff) : eff[i].method = method}

Approves(eff, user, chat) ==
    \E i \in Entries(eff, "approve_chat_join_request") :
        eff[i].user_id = user /\ eff[i].chat_id = chat

Declines(eff, user, chat) ==
    \E i \in Entries(eff, "decline_chat_join_request") :
        eff[i].user_id = user /\ eff[i].chat_id = chat

Prompts(eff, user) ==
    \E i \in Entries(eff, "send_message") :
        eff[i].chat_id = user /\ eff[i].text = "verification_required"

PromptDelivered(eff, user) ==
    \E i \in Entries(eff, "send_message") :
        eff[i].chat_id = user /\ eff[i].text = "verification_required" /\ eff[i].ok

InviteAttempts(eff, chat) ==
    {i \in Entries(eff, "create_chat_invite_link") : eff[i].chat_id = chat}

Replies(eff, user, text) ==
    \E i \in Entries(eff, "reply_text") : eff[i].chat_id = user /\ eff[i].text = text

\* the timestamps of user in d that are inside the window
InWindow(d, user) == unexpired(getitem(d, user), DayTicks)

\* the join rate check of lines 343-346 returns True for user
PassesJoinRate(user) == has_key(join_attempts, user) /\ can_join(user)

\* the stored phone of an admitted user classifies as target-region
StoredPhoneIsFilipino(user) ==
    get_user_phone(user) # None /\ verify_phone_number(get_user_phone(user)).is_filipino

(***************************************************************************)
(* C1 (code bug).  A join request from a non-trusted user whose banned     *)
(* flag is set in verified_users is declined and sends that user no        *)
(* verification prompt.  handle_join_request consults only the in-memory   *)
(* set blocked_users, which __init__ leaves empty: after a restart the     *)
(* banned user is sent the prompt and the request is recorded as pending.  *)
(***************************************************************************)
C1_BannedJoinRejected ==
    [][\A user \in Members, chat \in JoinChats :
        (update' = JoinUpdate(user, chat) /\ verified_users[user].is_banned)
        => (Declines(effects', user, chat) /\ ~Prompts(effects', user))]_vars

(***************************************************************************)
(* C2 (corrected).  As stated: a join request from a verified, non-banned  *)
(* user whose stored phone classifies as target-region and who passes the  *)
(* join rate check is approved and makes exactly one invite-issuance       *)
(* attempt for each active managed destination.                            *)
(***************************************************************************)
C2_Original_ApprovedWithInvites ==
    [][\A user \in Members, chat \in JoinChats :
        (/\ update' = JoinUpdate(user, chat)
         /\ is_verified(user) /\ StoredPhoneIsFilipino(user)
         /\ PassesJoinRate(user))
        => (/\ Approves(effects', user, chat)
            /\ \A c \in get_managed_groups :
                    Cardinality(InviteAttempts(effects', c)) = 1)]_vars

\* C2 as amended: such a join request makes an approve call for the pair, no
\* decline call, no prompt and no invite-issuance attempt at all; the record's
\* status is approved when the approve call returned, pending when it raised.
C2_ApprovedWithoutInvites ==
    [][\A user \in Members, chat \in JoinChats :
        (/\ update' = JoinUpdate(user, chat)
         /\ is_verified(user) /\ StoredPhoneIsFilipino(user)
         /\ PassesJoinRate(user))
        => (/\ Approves(effects', user, chat)
            /\ ~Declines(effects', user, chat)
            /\ ~Prompts(effects', user)
            /\ Entries(effects', "create_chat_invite_link") = {}
            /\ join_requests'[<<user, chat>>] =
                    IF effects'[1].ok THEN "approved" ELSE "pending")]_vars

\* a verified member was approved for a chat while a managed group is active
C2_Witness ==
    \E user \in Members, chat \in JoinChats :
        /\ update = JoinUpdate(user, chat)
        /\ is_verified(user) /\ StoredPhoneIsFilipino(user)
        /\ get_managed_groups # {}
        /\ Approves(effects, user, chat) /\ effects[1].ok
        /\ join_requests[<<user, chat>>] = "approved"

(***************************************************************************)
(* C3 (code bug).  For every user, a phone share of the user's own contact *)
(* made when verification_limit attempts of that user are inside the       *)
(* window leaves the user's banned flag set in verified_users (so the user *)
(* is not admitted), upserts nothing and records no new timestamp.         *)
(* ban_user is an UPDATE: for a user without a row it changes nothing, and *)
(* the ban exists only in blocked_users.                                   *)
(***************************************************************************)
C3_FourthAttemptBans ==
    [][\A user \in Users :
        (/\ OwnContact(update', user)
         /\ Len(InWindow(verification_attempts, user)) >= verification_limit)
        => (/\ verified_users'[user].is_banned
            /\ ~is_verified(user)'
            /\ verified_users'[user].phone_number = verified_users[user].phone_number
            /\ getitem(verification_attempts', user)
                    = InWindow(verification_attempts, user))]_vars

(***************************************************************************)
(* C4 (code bug).  The banned flag is monotone: once is_banned is set for  *)
(* a user it stays set after every later operation.  add_verified_user is  *)
(* INSERT OR REPLACE with is_banned FALSE: a banned user who verifies      *)
(* after a restart is unbanned.                                            *)
(***************************************************************************)
C4_BannedMonotone ==
    [][\A user \in Users :
        verified_users[user].is_banned => verified_users'[user].is_banned]_vars

(***************************************************************************)
(* C5 (corrected).  As stated: after add_verified_user(user, phone) the    *)
(* user is admitted; after a subsequent ban_user(user) the user is not     *)
(* admitted, the stored phone is unchanged, and get_user_phone(user) still *)
(* returns the phone that was stored.                                      *)
(***************************************************************************)
C5_Original_BanKeepsPhoneReadable ==
    [][\A user \in Users :
        OwnContact(update', user) =>
            /\ Replies(effects', user, "verified")
                => (/\ is_verified(user)'
                    /\ get_user_phone(user)' = update'.phone_number)
            /\ (is_verified(user) /\ Replies(effects', user, "too_many_attempts"))
                => (/\ ~is_verified(user)'
                    /\ verified_users'[user].phone_number = verified_users[user].phone_number
                    /\ get_user_phone(user)' = get_user_phone(user))]_vars

\* C5 as amended: after add_verified_user(user, phone) the user is admitted and
\* get_user_phone returns that phone; after a subsequent ban_user(user) the
\* user is not admitted, the phone_number column of the row is unchanged, and
\* get_user_phone(user) returns None, as for a user without a row.
C5_BanHidesStoredPhone ==
    [][\A user \in Users :
        OwnContact(update', user) =>
            /\ Replies(effects', user, "verified")
                => (/\ is_verified(user)'
                    /\ get_user_phone(user)' = update'.phone_number)
            /\ (is_verified(user) /\ Replies(effects', user, "too_many_attempts"))
                => (/\ ~is_verified(user)'
                    /\ verified_users'[user].phone_number = verified_users[user].phone_number
                    /\ get_user_phone(user)' = None)]_vars

\* a verified user has just been banned and the row still holds the phone
C5_Witness ==
    \E user \in Users :
        /\ OwnContact(update, user)
        /\ Replies(effects, user, "too_many_attempts")
        /\ verified_users[user].present /\ verified_users[user].is_banned
        /\ verified_users[user].phone_number = PhoneLocal
        /\ get_user_phone(user) = None

(***************************************************************************)
(* C6 (code bug).  For both rate-limited kinds (verification: limit 3,     *)
(* join: limit 5; window one day) and every user, a can_* call returns     *)
(* True while fewer than limit attempts of the user are recorded, False    *)
(* while limit attempts are recorded and all inside the window, and True   *)
(* again once the window has elapsed since the oldest of them.  After the  *)
(* first _cleanup the map is a plain dict, and the call raises KeyError    *)
(* for every user who has no key in it.                                    *)
(***************************************************************************)
CheckFollowsWindow(op, d, limit) ==
    \A user \in Members :
        (ret'.op = op /\ ret'.user_id = user /\ now' = now) =>
            /\ Len(getitem(d, user)) < limit => ret'.value = "True"
            /\ Len(InWindow(d, user)) = limit => ret'.value = "False"
            /\ (Len(getitem(d, user)) = limit /\ now - getitem(d, user)[1] >= DayTicks)
                => ret'.value = "True"

C6_CheckFollowsWindow ==
    [][/\ CheckFollowsWindow("can_verify", verification_attempts, verification_limit)
       /\ CheckFollowsWindow("can_join", join_attempts, join_limit)]_vars

(***************************************************************************)
(* C7 (confirmed).  The invite links a handler replies with hold exactly   *)
(* one entry for each active managed group, made from exactly one          *)
(* create_chat_invite_link call for that group: a link where the call      *)
(* returned, an explicit failure entry where it raised, and nothing for a  *)
(* group that is not active.  One group's failure neither prevents the     *)
(* call for another group nor removes its link.                            *)
(***************************************************************************)
C7_OneEntryPerDestination ==
    \A r \in Entries(effects, "reply_text") :
        effects[r].text \in {"verified", "groups"} =>
            LET links == effects[r].links IN
            \A c \in Chats :
                LET entries == {k \in 1..Len(links) : links[k].chat_id = c}
                    calls == InviteAttempts(effects, c)
                IN  IF c \in get_managed_groups
                    THEN /\ Cardinality(entries) = 1
                         /\ Cardinality(calls) = 1
                         /\ \A k \in entries, i \in calls :
                                /\ i < r
                                /\ links[k].entry = IF effects[i].ok THEN "link" ELSE "failed"
                    ELSE entries = {} /\ calls = {}

\* three active groups, issuance failed for exactly one: two links, one failure
C7_Witness ==
    \E r \in Entries(effects, "reply_text") :
        LET links == effects[r].links IN
        /\ Cardinality(get_managed_groups) = 3
        /\ Len(links) = 3
        /\ Cardinality({k \in 1..3 : links[k].entry = "failed"}) = 1
        /\ Cardinality({k \in 1..3 : links[k].entry = "link"}) = 2

(***************************************************************************)
(* C8 (confirmed).  A join request from the bot's own account or from      *)
(* ADMIN_ID is answered with the approve call and nothing else, whatever   *)
(* the requester's banned flag, verification status and join attempts      *)
(* are: no join timestamp is recorded, no join_requests row is written,    *)
(* no prompt is sent and no spam_tracking row is inserted.                 *)
(***************************************************************************)
C8_TrustedJoinApproved ==
    [][\A user \in {ADMIN_ID, BOT_ID}, chat \in JoinChats :
        update' = JoinUpdate(user, chat) =>
            /\ Len(effects') = 1
            /\ Approves(effects', user, chat)
            /\ UNCHANGED <<rl_vars, blocked_users, db_vars>>]_vars

\* the administrator, banned in the table and in memory, was approved
C8_Witness ==
    \E chat \in JoinChats :
        /\ update = JoinUpdate(ADMIN_ID, chat)
        /\ verified_users[ADMIN_ID].is_banned
        /\ ADMIN_ID \in blocked_users
        /\ Approves(effects, ADMIN_ID, chat) /\ effects[1].ok

(***************************************************************************)
(* C9 (code bug).  A join request from an admitted user (verified, not     *)
(* banned, join limit not used up) whose stored phone no longer classifies *)
(* as target-region is sent the verification prompt, and when the prompt   *)
(* is delivered the record is pending and no decline call is made.  When   *)
(* another user's join request came first, can_join raises KeyError (C6):  *)
(* no prompt is sent and no record is written.                             *)
(***************************************************************************)
C9_InconsistencyPrompts ==
    [][\A user \in Members, chat \in JoinChats :
        (/\ update' = JoinUpdate(user, chat)
         /\ is_verified(user) /\ ~StoredPhoneIsFilipino(user)
         /\ Len(InWindow(join_attempts, user)) < join_limit)
        => (/\ Prompts(effects', user)
            /\ PromptDelivered(effects', user)
                => (/\ join_requests'[<<user, chat>>] = "pending"
                    /\ ~Declines(effects', user, chat)))]_vars

(***************************************************************************)
(* C10 (code bug).  When the verification prompt of a join request raises, *)
(* a decline call is made and the record's status becomes rejected; when   *)
(* the prompt is delivered the status is pending.  When the decline call   *)
(* raises too, line 386 is skipped and the status stays pending.           *)
(***************************************************************************)
C10_UndeliveredPromptRejects ==
    [][\A user \in Members, chat \in JoinChats :
        (update' = JoinUpdate(user, chat) /\ Prompts(effects', user))
        => IF PromptDelivered(effects', user)
           THEN join_requests'[<<user, chat>>] = "pending"
           ELSE /\ Declines(effects', user, chat)
                /\ join_requests'[<<user, chat>>] = "rejected"]_vars

\* the verify rate check of lines 429-433 returns True for user
PassesVerifyRate(user) == has_key(verification_attempts, user) /\ can_verify(user)

(***************************************************************************)
(* C11 (confirmed).  A share of the sender's own contact, by a sender who  *)
(* is neither banned in verified_users nor in blocked_users, whose verify  *)
(* rate check returns True and whose phone classifies as Filipino, leaves  *)
(* the sender verified with exactly that phone stored, and makes exactly   *)
(* one create_chat_invite_link call for every active managed group and     *)
(* none for any other chat.                                                *)
(***************************************************************************)
C11_VerifiedShareAdmits ==
    [][\A user \in Users :
        (/\ OwnContact(update', user)
         /\ user \notin blocked_users
         /\ ~verified_users[user].is_banned
         /\ PassesVerifyRate(user)
         /\ verify_phone_number(update'.phone_number).is_filipino)
        => (/\ is_verified(user)'
            /\ verified_users'[user].phone_number = update'.phone_number
            /\ \A c \in Chats :
                    Cardinality(InviteAttempts(effects', c))
                        = IF c \in get_managed_groups THEN 1 ELSE 0)]_vars

\* a user verified while two or more groups were active, one call for each
C11_Witness ==
    \E user \in Users :
        /\ OwnContact(update, user)
        /\ Replies(effects, user, "verified")
        /\ is_verified(user)
        /\ verified_users[user].phone_number = update.phone_number
        /\ Cardinality(get_managed_groups) >= 2
        /\ \A c \in get_managed_groups : Cardinality(InviteAttempts(effects, c)) = 1

\* the spam_tracking rows of the given type the last handler inserted for user
AuditRows(eff, user, incident_type) ==
    {i \in Entries(eff, "log_spam_incident") :
        eff[i].user_id = user /\ eff[i].text = incident_type}

(***************************************************************************)
(* C12 (code bug).  A share of the sender's own contact that passes the    *)
(* verify rate check with a phone that does not classify as Filipino       *)
(* changes neither verified_users nor blocked_users, records one verify    *)
(* timestamp and inserts one spam_tracking row of type "invalid_phone".    *)
(* The row is inserted after reply_text, outside any try: when the reply   *)
(* raises, the attempt is counted but no row is written.                   *)
(***************************************************************************)
C12_InvalidPhoneOnlyLogged ==
    [][\A user \in Users :
        (/\ OwnContact(update', user)
         /\ user \notin blocked_users
         /\ PassesVerifyRate(user)
         /\ ~verify_phone_number(update'.phone_number).is_filipino)
        => (/\ UNCHANGED <<verified_users, blocked_users>>
            /\ getitem(verification_attempts', user)
                    = Append(InWindow(verification_attempts, user), now)
            /\ Cardinality(AuditRows(effects', user, "invalid_phone")) = 1)]_vars

(***************************************************************************)
(* C13 (confirmed).  A contact message whose contact.user_id is not the    *)
(* sender's id is answered with one reply and changes nothing:             *)
(* verified_users (the banned flag included), both attempt maps,           *)
(* blocked_users, join_requests and managed_groups are unchanged, no       *)
(* spam_tracking row is inserted and no invite link is requested.          *)
(***************************************************************************)
C13_MismatchChangesNothing ==
    [][\A user \in Users :
        (/\ update'.handler = "handle_contact_message"
         /\ update'.user_id = user
         /\ update'.contact_user_id # user)
        => (/\ UNCHANGED <<rl_vars, blocked_users, db_vars>>
            /\ Len(effects') = 1
            /\ \/ Replies(effects', user, "own_number_only")
               \/ Replies(effects', user, "blocked")
            /\ Entries(effects', "log_spam_incident") = {}
            /\ Entries(effects', "create_chat_invite_link") = {})]_vars

\* someone else's contact was refused while a group was active and the sender
\* had an attempt on record
C13_Witness ==
    \E user \in Users :
        /\ update.handler = "handle_contact_message"
        /\ update.user_id = user /\ update.contact_user_id # user
        /\ Replies(effects, user, "own_number_only")
        /\ get_managed_groups # {}
        /\ getitem(verification_attempts, user) # <<>>

\* verify_phone_number has just returned for the phone of update
Classified == ret.op = "verify_phone_number"

(***************************************************************************)
(* C14 (confirmed).  For every subscriber, the leading-zero national form, *)
(* the bare national form, the form with 63 and no plus, and the form with *)
(* +63 get the same formatted_number and the same is_filipino from         *)
(* verify_phone_number ("09171234567", "9171234567", "639171234567" and    *)
(* "+639171234567" among them), under either metadata release.             *)
(***************************************************************************)
C14_FourFormsClassifyAlike ==
    \A sub \in Subscribers, prefix \in Prefixes :
        (Classified /\ update.phone_number = Written(prefix, sub, <<>>)) =>
            \A other \in Prefixes :
                LET result == verify_phone_number(Written(other, sub, <<>>)) IN
                /\ result.formatted_number = ret.value.formatted_number
                /\ result.is_filipino = ret.value.is_filipino

\* the bare national form "9171234567" was classified as Filipino
C14_Witness ==
    /\ Classified
    /\ update.phone_number = <<"9","1","7","1","2","3","4","5","6","7">>
    /\ ret.value.is_filipino
    /\ ret.value.formatted_number = verify_phone_number(PhoneLocal).formatted_number

(***************************************************************************)
(* C15 (code bug).  verify_phone_number("09171234567") returns the E.164   *)
(* string "+639171234567" with is_filipino true, and the phone stored by a *)
(* successful verification is that string.  The code formats with          *)
(* PhoneNumberFormat.INTERNATIONAL ("+63 917 123 4567") and stores the raw *)
(* contact.phone_number.                                                   *)
(***************************************************************************)
PhoneE164 == <<"+","6","3","9","1","7","1","2","3","4","5","6","7">>

C15_CanonicalE164Stored ==
    [][(update.phone_number = PhoneLocal /\ metadata = 1) =>
            /\ (~Classified /\ Classified')
                => (/\ ret'.value.is_filipino
                    /\ ret'.value.formatted_number = PhoneE164)
            /\ (effects' # effects /\ Replies(effects', update.user_id, "verified"))
                => verified_users'[update.user_id].phone_number = PhoneE164]_vars

(***************************************************************************)
(* C16 (code bug).  When the bot is added to a chat where it is an         *)
(* administrator without the right to invite users (can_invite_users       *)
(* false), the chat is not registered in managed_groups.  The code looks   *)
(* at bot_member.status only.                                              *)
(***************************************************************************)
C16_NoInviteRightNotRegistered ==
    [][\A chat \in Chats, raises \in Ordinals(2) :
            (/\ update' = Update("handle_new_chat_member", BOT_ID, chat, 0, <<>>)
             /\ handle_new_chat_member(chat, "administrator", FALSE, raises))
                => managed_groups'[chat] = managed_groups[chat]]_vars

(***************************************************************************)
(* C17 (code bug).  When the bot stops being an administrator of a         *)
(* registered chat, the chat's row is kept with is_active false, so that   *)
(* get_managed_groups no longer returns it.  No code path ever writes      *)
(* is_active = FALSE.                                                      *)
(***************************************************************************)
C17_LostCapabilityDeactivates ==
    [][\A chat \in Chats :
            (update' = MyChatMemberUpdate(chat) /\ managed_groups[chat].present)
                => (/\ managed_groups'[chat].present
                    /\ ~managed_groups'[chat].is_active)]_vars

(***************************************************************************)
(* C18 (code bug).  A join request that was answered with a delivered      *)
(* verification prompt and is pending is eventually approved once its user *)
(* is verified with a Filipino phone, with no new join request from that   *)
(* user.  handle_contact_message never looks at join_requests.             *)
(***************************************************************************)
C18_VerifiedPendingApproved ==
    \A user \in Members, chat \in JoinChats :
        []((/\ update = JoinUpdate(user, chat)
            /\ PromptDelivered(effects, user)
            /\ join_requests[<<user, chat>>] = "pending")
                => []((is_verified(user) /\ StoredPhoneIsFilipino(user))
                        => <>(join_requests[<<user, chat>>] = "approved")))

\* user is banned: in memory (line 339) or in verified_users
Banned(user) == user \in blocked_users \/ verified_users[user].is_banned

\* the step appended a timestamp to user's join attempts
JoinRecorded(user) ==
    getitem(join_attempts', user) = Append(InWindow(join_attempts, user), now)

(***************************************************************************)
(* C19 (code bug).  A join request of a non-trusted, non-banned user whose *)
(* join rate check is false is declined, leaves an audit row for the rate  *)
(* limit (under the name the code or the specification gives it) and       *)
(* records no join timestamp; a join request records a timestamp exactly   *)
(* when its user is not trusted, passes the banned check of line 339 and   *)
(* passes the rate check.  When the decline call raises, line 345 is       *)
(* skipped: no audit row.                                                  *)
(***************************************************************************)
C19_RateLimitedJoinAudited ==
    [][\A user \in Users, chat \in JoinChats :
        update' = JoinUpdate(user, chat) =>
            /\ (~is_trusted(user) /\ ~Banned(user)
                    /\ has_key(join_attempts, user) /\ ~can_join(user))
                => (/\ Declines(effects', user, chat)
                    /\ AuditRows(effects', user, "join_rate_limit")
                         \cup AuditRows(effects', user, "join_request_rate_limit") # {}
                    /\ getitem(join_attempts', user) = InWindow(join_attempts, user))
            /\ JoinRecorded(user)
                <=> (~is_trusted(user) /\ user \notin blocked_users
                        /\ PassesJoinRate(user))]_vars

\* a call of method made by the handler that ran last returned normally
Succeeded(eff, method) == \E i \in Entries(eff, method) : eff[i].ok

(***************************************************************************)
(* C20 (confirmed).  join_requests holds one status per (user, chat).  It  *)
(* changes only in a join request of that pair that wrote a fresh pending  *)
(* record, and is never removed: the fresh record ends the handler as      *)
(* approved when the approve call succeeded, as rejected when the decline  *)
(* call succeeded, and as pending otherwise.  So a pending record changes  *)
(* only to approved or rejected, and an approved or rejected one only      *)
(* through the pending record of a later request of the same pair.         *)
(***************************************************************************)
C20_StatusFollowsLifecycle ==
    [][\A user \in Users, chat \in JoinChats :
        LET old == join_requests[<<user, chat>>]
            new == join_requests'[<<user, chat>>]
            fresh == update' = JoinUpdate(user, chat) /\ JoinRecorded(user)
        IN  /\ new # old => (fresh /\ new \in {"pending", "approved", "rejected"})
            /\ (old = "pending" /\ new # old) => new \in {"approved", "rejected"}
            /\ fresh =>
                new = IF Succeeded(effects', "approve_chat_join_request") THEN "approved"
                      ELSE IF Succeeded(effects', "decline_chat_join_request") THEN "rejected"
                      ELSE "pending"]_vars

\* a member's record for the chat was overwritten by a later request of the
\* pair, which the approve call turned into approved
C20_Witness ==
    \E user \in Members, chat \in JoinChats :
        /\ update = JoinUpdate(user, chat)
        /\ Len(getitem(join_attempts, user)) >= 2
        /\ Succeeded(effects, "approve_chat_join_request")
        /\ join_requests[<<user, chat>>] = "approved"

\* a send_message of the handler that ran last, with the given text, raised
Undelivered(eff, text) ==
    \E i \in Entries(eff, "send_message") : eff[i].text = text /\ ~eff[i].ok

(***************************************************************************)
(* C21 (confirmed).  When the approve call of a join request succeeded and *)
(* the welcome message to the requester or the notification to the         *)
(* administrator raises, the record of the pair is approved after the      *)
(* handler and the handler makes no decline call for the pair.             *)
(***************************************************************************)
C21_FailedNotificationKeepsApproval ==
    [][\A user \in Members, chat \in JoinChats :
        (/\ update' = JoinUpdate(user, chat)
         /\ Succeeded(effects', "approve_chat_join_request")
         /\ Undelivered(effects', "welcome") \/ Undelivered(effects', "auto_approved"))
        => (/\ join_requests'[<<user, chat>>] = "approved"
            /\ ~Declines(effects', user, chat))]_vars

\* a member was approved while neither notification could be delivered
C21_Witness ==
    \E user \in Members, chat \in JoinChats :
        /\ update = JoinUpdate(user, chat)
        /\ Succeeded(effects, "approve_chat_join_request")
        /\ Undelivered(effects, "welcome") /\ Undelivered(effects, "auto_approved")
        /\ join_requests[<<user, chat>>] = "approved"

(***************************************************************************)
(* C22 (code bug).  After a join request in which the approve call, the    *)
(* decline call or the prompt raised, the record the handler wrote is      *)
(* approved, rejected, or pending with the prompt delivered.  When the     *)
(* approve call raises, or the prompt and then the decline call raise, the *)
(* outer except only logs: the record stays pending and no prompt reached  *)
(* the requester.                                                          *)
(***************************************************************************)
C22_FailedCallLeavesNoStuckRequest ==
    [][\A user \in Members, chat \in JoinChats :
        (/\ update' = JoinUpdate(user, chat)
         /\ JoinRecorded(user)
         /\ \E i \in 1..Len(effects') : ~effects'[i].ok)
        => \/ join_requests'[<<user, chat>>] \in {"approved", "rejected"}
           \/ /\ join_requests'[<<user, chat>>] = "pending"
              /\ PromptDelivered(effects', user)]_vars

\* the users whose banned flag is set in verified_users
DurablyBanned == {u \in Users : verified_users[u].is_banned}

(***************************************************************************)
(* C23 (code bug).  Whenever a join request is decided, also after a       *)
(* restart, every user whose banned flag is set in verified_users is in    *)
(* blocked_users, the set the handler treats as banned.  __init__ starts   *)
(* blocked_users empty and nothing fills it from the table.                *)
(***************************************************************************)
C23_DurableBansAreTreatedAsBanned ==
    [][\A user \in Users, chat \in JoinChats :
        update' = JoinUpdate(user, chat) => DurablyBanned \subseteq blocked_users]_vars

\* user's row in verified_users is present and unbanned, user is not blocked
\* in memory, and the phone of the row classifies as Filipino
AdmittedWithFilipinoPhone(user) ==
    /\ verified_users[user].present
    /\ ~verified_users[user].is_banned
    /\ user \notin blocked_users
    /\ verify_phone_number(verified_users[user].phone_number).is_filipino

PassedInWindow(user) ==
    {t \in TaskIds : /\ tasks[t].user_id = user
                     /\ tasks[t].passed_at >= 0
                     /\ now - tasks[t].passed_at < DayTicks}

(***************************************************************************)
(* C24 (confirmed).  With the contact messages of one user interleaved at  *)
(* every await of the handler, no coroutine is ever suspended between its  *)
(* rate check (line 429) and the record of its attempt (line 434), and at  *)
(* most verification_limit of the user's submissions passed the check      *)
(* inside one window.                                                      *)
(***************************************************************************)
C24_CheckAndRecordTogether ==
    /\ \A t \in TaskIds : tasks[t].pc # "l434"
    /\ \A user \in Contacts : Cardinality(PassedInWindow(user)) <= verification_limit

\* three submissions passed the check inside the window and a further one
\* was rate-limited while an earlier coroutine was still suspended
C24_Witness ==
    \E user \in Contacts :
        /\ Cardinality(PassedInWindow(user)) = verification_limit
        /\ user \in blocked_users
        /\ \E t \in TaskIds : tasks[t].user_id = user /\ tasks[t].pc \in {"l443", "l455"}
        /\ \E t \in TaskIds : tasks[t].user_id = user /\ tasks[t].pc \in {"l431", "l432"}

====
